---------------------------- MODULE Spec2Model ----------------------------
(***************************************************************************)
(* A model of parameters_checker.py: the requirement extractor, the arxml  *)
(* scanner, the reconciliation engine and the report generator.            *)
(*                                                                         *)
(* Text is a sequence of tokens.  A token is one character, except for the *)
(* fixed literals the program searches for (the phrase shall be set to,    *)
(* the DEFINITION-REF marker, the path and value delimiters), which are    *)
(* one token each; the alphabets below hold no character out of which such *)
(* a literal could be assembled across tokens.                             *)
(*                                                                         *)
(* A Python dict is a sequence of [k, v] entries in insertion order.       *)
(***************************************************************************)
EXTENDS Integers, Sequences, FiniteSets, TLC

VARIABLES
    pc,                 \* where the main program is
    err,                \* the exception that ended the run, or none
    sheet,              \* the active sheet: rows of [object_type, text, status, comment]
    rowNo,              \* rows handed out by iter_rows so far
    parameters,         \* dict: parameter name -> expected value
    parameters_cells,   \* dict: parameter name -> row (its index in the sheet)
    tree,               \* the arxml files in directory-walk order, each a sequence of lines
    fileNo,             \* the file being read (0: none opened yet)
    lineNo,             \* lines of that file consumed from the file iterator
    param_data,         \* dict: parameter name -> list of [file, line, value]
    compNo,             \* entries of parameters.items() consumed by compute_params
    values_as_expected,                 \* bucket 0 (AGREED)
    nothing_found_container,            \* bucket 1 (NOT_FOUND)
    cannot_decide_value,                \* bucket 2 (AMBIGUOUS)
    not_equal_expected_actual_values,   \* bucket 3 (MISMATCHED)
    bucketNo,           \* the bucket generate_report is writing
    entryNo,            \* entries of that bucket written
    report_file         \* the lines written to report.md

vars == <<pc, err, sheet, rowNo, parameters, parameters_cells, tree, fileNo, lineNo,
          param_data, compNo, values_as_expected, nothing_found_container,
          cannot_decide_value, not_equal_expected_actual_values, bucketNo, entryNo,
          report_file>>

----------------------------------------------------------------------------
(* Bounds *)

MaxRows == 2        \* rows of the sheet
MaxText == 5        \* tokens of a requirement text
MaxValueLen == 3    \* tokens of an expected or an actual value
MaxStream == 5      \* lines of the tree, counting the ends of file between files

----------------------------------------------------------------------------
(* Python dicts *)

EmptyDict == << >>

Keys(d) == {d[i].k : i \in DOMAIN d}

Has(d, k) == \E i \in DOMAIN d : d[i].k = k

Get(d, k) == d[CHOOSE i \in DOMAIN d : d[i].k = k].v

Put(d, k, v) ==
    IF Has(d, k)
    THEN [i \in DOMAIN d |-> IF d[i].k = k THEN [k |-> k, v |-> v] ELSE d[i]]
    ELSE Append(d, [k |-> k, v |-> v])

\* a faulty variant: the bucket is replaced by the result of the last parameter
MergeOverwrite(a, b) == b

\* {**a, **b}
RECURSIVE Merge(_, _)
Merge(a, b) == IF b = << >> THEN a ELSE Merge(Put(a, b[1].k, b[1].v), Tail(b))

----------------------------------------------------------------------------
(* Python str *)

Whitespace == {" ", "\t", "\n"}

KEY == "shall be set to"
KEYTAIL == "hall be set to"

WordChars == {"p", "q", "P", "Q", "a", "A", "5", "6"}

\* the token ends in a character of the class \w
EndsInWord(c) == c \in WordChars \cup {KEY, KEYTAIL}

Max(S) == CHOOSE x \in S : \A y \in S : y <= x
Min(S) == CHOOSE x \in S : \A y \in S : x <= y

RECURSIVE lstrip(_)
lstrip(s) == IF s # << >> /\ Head(s) \in Whitespace THEN lstrip(Tail(s)) ELSE s

RECURSIVE rstrip(_)
rstrip(s) ==
    IF s # << >> /\ s[Len(s)] \in Whitespace THEN rstrip(SubSeq(s, 1, Len(s) - 1)) ELSE s

strip(s) == rstrip(lstrip(s))

UpperChar(c) ==
    CASE c = "a" -> "A"
      [] c = "p" -> "P"
      [] c = "q" -> "Q"
      [] OTHER -> c

upper(s) == [i \in DOMAIN s |-> UpperChar(s[i])]

replace(s, old, new) == [i \in DOMAIN s |-> IF s[i] = old THEN new ELSE s[i]]

\* s.split on one space, element 0
split_space_first(s) ==
    LET sp == {i \in DOMAIN s : s[i] = " "}
    IN  IF sp = {} THEN s ELSE SubSeq(s, 1, Min(sp) - 1)

\* s.split on a slash, last element
split_slash_last(s) ==
    LET sl == {i \in DOMAIN s : s[i] = "/"}
    IN  IF sl = {} THEN s ELSE SubSeq(s, Max(sl) + 1, Len(s))

contains(s, tok) == \E i \in DOMAIN s : s[i] = tok

----------------------------------------------------------------------------
(* get_param: anything, the phrase, any one character, then anything up to *)
(* a word character; matched at the start of the line, both groups greedy  *)

NoMatch == [matched |-> FALSE, g1 |-> << >>, g2 |-> << >>]

\* the dot never matches a newline and the match starts at 0: only the first line counts
first_line(s) ==
    LET nl == {i \in DOMAIN s : s[i] = "\n"}
    IN  IF nl = {} THEN s ELSE SubSeq(s, 1, Min(nl) - 1)

get_param(text) ==
    LET line == first_line(text)
        n == Len(line)
        words == {j \in 1..n : EndsInWord(line[j])}
        lastWord == IF words = {} THEN 0 ELSE Max(words)
        \* the phrase at i, then the dot eats one character, then the value up to a word character
        ok(i) == /\ line[i] = KEY
                 /\ i + 1 <= n
                 /\ (line[i + 1] = KEY \/ lastWord >= i + 2)
        cands == {i \in 1..n : ok(i)}
    IN  IF cands = {}
        THEN NoMatch
        ELSE LET i == Max(cands)    \* group 1 is greedy
             IN  [matched |-> TRUE,
                  g1 |-> SubSeq(line, 1, i - 1),
                  g2 |-> IF line[i + 1] = KEY
                         THEN <<KEYTAIL>> \o SubSeq(line, i + 2, lastWord)
                         ELSE SubSeq(line, i + 2, lastWord)]

----------------------------------------------------------------------------
(* fill_params_dict: the new dict and the returned name (or None)          *)

None == [some |-> FALSE, name |-> << >>]

fill_params_dict(object_type, text, params) ==
    IF contains(object_type, "Requirement")
    THEN LET res == get_param(replace(text, "\n", " "))
         IN  IF res.matched
             THEN LET param_name == strip(res.g1)
                      param_value == res.g2
                  IN  IF Has(params, param_name)
                      THEN [parameters |-> params, ret |-> None]
                      ELSE [parameters |-> Put(params, param_name, param_value),
                            ret |-> [some |-> TRUE, name |-> param_name]]
             ELSE [parameters |-> params, ret |-> None]
    ELSE [parameters |-> params, ret |-> None]

\* Python truth of the returned name: None and the empty string are false
truthy(ret) == ret.some /\ ret.name # << >>

----------------------------------------------------------------------------
(* search_for_param: one turn of the loop over the lines of a file         *)

MARK == "DEFINITION-REF"
OPENPATH == ">/"
CLOSE == "</"
VOPEN == "<VALUE>"
VCLOSE == "</VALUE>"

\* the closing delimiter of the path pattern also opens a closing value tag
IsClose(tok) == tok \in {CLOSE, VCLOSE}

\* param_pattern.search(line): the leftmost opening delimiter that has a closing
\* delimiter after it, then greedily to the last closing delimiter
param_pattern_search(line) ==
    LET opens == {a \in DOMAIN line :
                     /\ line[a] = OPENPATH
                     /\ \E b \in DOMAIN line : b > a /\ IsClose(line[b])}
    IN  IF opens = {}
        THEN [matched |-> FALSE, g1 |-> << >>]
        ELSE LET a == Min(opens)
                 b == Max({c \in DOMAIN line : c > a /\ IsClose(line[c])})
             IN  [matched |-> TRUE, g1 |-> SubSeq(line, a + 1, b - 1)]

\* value_pattern.match(s): the opening tag at the start, then greedily to the
\* last closing tag
value_pattern_match(s) ==
    LET closes == {b \in DOMAIN s : b > 1 /\ s[b] = VCLOSE}
    IN  IF s # << >> /\ s[1] = VOPEN /\ closes # {}
        THEN [matched |-> TRUE, g1 |-> SubSeq(s, 2, Max(closes) - 1)]
        ELSE [matched |-> FALSE, g1 |-> << >>]

\* a faulty variant: the list of the name is replaced by the new occurrence
add_occurrence_overwrite(pdata, param_name, data_param) ==
    Put(pdata, param_name, <<data_param>>)

\* a faulty variant: the value candidate is read without being consumed
after_peek(ln) == ln + 1

\* the lines consumed once the loop body at ln has called next(xml_file)
after_next(ln) == ln + 2

\* param_data[param_name].append(data_param), or a new one-element list
add_occurrence(pdata, param_name, data_param) ==
    IF Has(pdata, param_name)
    THEN Put(pdata, param_name, Append(Get(pdata, param_name), data_param))
    ELSE Put(pdata, param_name, <<data_param>>)

\* The loop body for the line after the ln lines already consumed from the
\* iterator of arxml_file; next(xml_file) consumes one more line, or raises
\* StopIteration when the iterator is exhausted.
scan_line(params, arxml_file, ln, pdata) ==
    LET line == arxml_file.lines[ln + 1]
        same == [lineNo |-> ln + 1, param_data |-> pdata, err |-> "none"]
    IN  IF ~contains(line, MARK)
        THEN same
        ELSE LET param_match == param_pattern_search(line)
             IN  IF ~param_match.matched
                 THEN same
                 ELSE LET param_name == split_slash_last(param_match.g1)
                      IN  IF ~Has(params, param_name)
                          THEN same
                          ELSE IF ln + 2 > Len(arxml_file.lines)
                               THEN [lineNo |-> ln + 1, param_data |-> pdata,
                                     err |-> "StopIteration"]
                               ELSE LET next_line == arxml_file.lines[ln + 2]
                                        match == value_pattern_match(strip(next_line))
                                        data_param == <<arxml_file.path, strip(line), match.g1>>
                                    IN  [lineNo |-> after_next(ln),
                                         param_data |->
                                            IF match.matched
                                            THEN add_occurrence(pdata, param_name, data_param)
                                            ELSE pdata,
                                         err |-> "none"]

----------------------------------------------------------------------------
(* compute_param and compute_params                                        *)

get_container_dict(param_name, param_expected_value, actual_value_field, found_field) ==
    [name |-> param_name, expected_value |-> param_expected_value,
     actual_value |-> actual_value_field, found_in |-> found_field]

\* the pieces the two display strings are concatenated from
found_entry(result) == [tag |-> "File", file |-> result[1], text |-> result[2]]
value_entry(result) == [tag |-> "Value in", file |-> result[1], text |-> result[3]]
undecided_entry == [tag |-> "Could not decide the value", file |-> "", text |-> << >>]
computed_entry(v) == [tag |-> "Computed actual value", file |-> "", text |-> v]
not_found_entry == [tag |-> "not found", file |-> "", text |-> << >>]

\* a faulty variant: the set is created anew for every result, so it holds the last value
value_decider_last(param_result) == {param_result[Len(param_result)][3]}

\* a faulty variant: the values are normalized before they are told apart
value_decider_normalized(param_result) ==
    {split_space_first(upper(param_result[i][3])) : i \in DOMAIN param_result}

\* value_decider after the loop over param_result
value_decider_of(param_result) == {param_result[i][3] : i \in DOMAIN param_result}

compute_param(param_name, param_expected_value, param_result) ==
    LET found_field == [i \in DOMAIN param_result |-> found_entry(param_result[i])]
        actual_value_field == [i \in DOMAIN param_result |-> value_entry(param_result[i])]
        value_decider == value_decider_of(param_result)
        nothing == [values_as_expected |-> EmptyDict, cannot_decide_value |-> EmptyDict,
                    not_equal_expected_actual_values |-> EmptyDict, err |-> "none"]
    IN  IF Cardinality(value_decider) > 1
        THEN [nothing EXCEPT !.cannot_decide_value =
                 Put(EmptyDict, param_name,
                     get_container_dict(param_name, param_expected_value,
                                        Append(actual_value_field, undecided_entry),
                                        found_field))]
        ELSE IF value_decider = {}
        THEN [nothing EXCEPT !.err = "StopIteration"]     \* next() of an empty iterator
        ELSE LET computed_value == CHOOSE v \in value_decider : TRUE
                 processed_computed_value == split_space_first(upper(computed_value))
                 processed_expected_value == split_space_first(upper(param_expected_value))
                 container == get_container_dict(
                                  param_name, param_expected_value,
                                  Append(actual_value_field,
                                         computed_entry(processed_computed_value)),
                                  found_field)
             IN  IF processed_computed_value = processed_expected_value
                 THEN [nothing EXCEPT !.values_as_expected =
                                           Put(EmptyDict, param_name, container)]
                 ELSE [nothing EXCEPT !.not_equal_expected_actual_values =
                                           Put(EmptyDict, param_name, container)]

----------------------------------------------------------------------------
(* The program, step by step                                               *)

\* extract_params_from_excel: one row of iter_rows
ExtractRow ==
    /\ pc = "extract"
    /\ rowNo < Len(sheet)
    /\ LET cell == sheet[rowNo + 1]
           r == fill_params_dict(cell.object_type, cell.text, parameters)
       IN  /\ parameters' = r.parameters
           /\ parameters_cells' = IF truthy(r.ret)
                                  THEN Put(parameters_cells, r.ret.name, rowNo + 1)
                                  ELSE parameters_cells
    /\ rowNo' = rowNo + 1
    /\ UNCHANGED <<pc, err, sheet, tree, fileNo, lineNo, param_data, compNo,
                   values_as_expected, nothing_found_container, cannot_decide_value,
                   not_equal_expected_actual_values, bucketNo, entryNo, report_file>>

\* extract_params_from_excel returns; main calls search_for_param
ExtractReturn ==
    /\ pc = "extract"
    /\ rowNo = Len(sheet)
    /\ pc' = "scan"
    /\ UNCHANGED <<err, sheet, rowNo, parameters, parameters_cells, tree, fileNo, lineNo,
                   param_data, compNo, values_as_expected, nothing_found_container,
                   cannot_decide_value, not_equal_expected_actual_values, bucketNo,
                   entryNo, report_file>>

\* the file iterator of the open file is exhausted (or no file is open yet)
AtEndOfFile == IF fileNo = 0 THEN TRUE ELSE lineNo = Len(tree[fileNo].lines)

\* search_for_param: the next file of find_arxml_files is opened
ScanNextFile ==
    /\ pc = "scan"
    /\ AtEndOfFile
    /\ fileNo < Len(tree)
    /\ fileNo' = fileNo + 1
    /\ lineNo' = 0
    /\ UNCHANGED <<pc, err, sheet, rowNo, parameters, parameters_cells, tree, param_data,
                   compNo, values_as_expected, nothing_found_container,
                   cannot_decide_value, not_equal_expected_actual_values, bucketNo,
                   entryNo, report_file>>

\* search_for_param: one turn of the loop over the lines of the open file
ScanLine ==
    /\ pc = "scan"
    /\ fileNo >= 1
    /\ lineNo < Len(tree[fileNo].lines)
    /\ LET r == scan_line(parameters, tree[fileNo], lineNo, param_data)
       IN  /\ lineNo' = r.lineNo
           /\ param_data' = r.param_data
           /\ err' = r.err
           /\ pc' = IF r.err = "none" THEN "scan" ELSE "crashed"
    /\ UNCHANGED <<sheet, rowNo, parameters, parameters_cells, tree, fileNo, compNo,
                   values_as_expected, nothing_found_container, cannot_decide_value,
                   not_equal_expected_actual_values, bucketNo, entryNo, report_file>>

\* search_for_param returns param_data; main calls compute_params
ScanReturn ==
    /\ pc = "scan"
    /\ AtEndOfFile
    /\ fileNo = Len(tree)
    /\ pc' = "compute"
    /\ UNCHANGED <<err, sheet, rowNo, parameters, parameters_cells, tree, fileNo, lineNo,
                   param_data, compNo, values_as_expected, nothing_found_container,
                   cannot_decide_value, not_equal_expected_actual_values, bucketNo,
                   entryNo, report_file>>

\* compute_params: one turn of the loop over parameters.items()
ComputeParam ==
    /\ pc = "compute"
    /\ compNo < Len(parameters)
    /\ LET param_name == parameters[compNo + 1].k
           param_expected_value == parameters[compNo + 1].v
       IN  IF ~Has(param_data, param_name)
           THEN /\ nothing_found_container' =
                       Put(nothing_found_container, param_name,
                           get_container_dict(param_name, param_expected_value,
                                              <<not_found_entry>>, <<not_found_entry>>))
                /\ UNCHANGED <<pc, err, values_as_expected, cannot_decide_value,
                               not_equal_expected_actual_values>>
           ELSE LET result == compute_param(param_name, param_expected_value,
                                            Get(param_data, param_name))
                IN  /\ values_as_expected' =
                           Merge(values_as_expected, result.values_as_expected)
                    /\ cannot_decide_value' =
                           Merge(cannot_decide_value, result.cannot_decide_value)
                    /\ not_equal_expected_actual_values' =
                           Merge(not_equal_expected_actual_values,
                                 result.not_equal_expected_actual_values)
                    /\ err' = result.err
                    /\ pc' = IF result.err = "none" THEN "compute" ELSE "crashed"
                    /\ UNCHANGED nothing_found_container
    /\ compNo' = compNo + 1
    /\ UNCHANGED <<sheet, rowNo, parameters, parameters_cells, tree, fileNo, lineNo,
                   param_data, bucketNo, entryNo, report_file>>

section_title(b) ==
    CASE b = 0 -> "# PARAMETERS WITH VALUES AS EXPECTED"
      [] b = 1 -> "# PARAMETERS THAT WERE NOT FOUND IN CONFIG"
      [] b = 2 -> "# PARAMETERS WITH VALUES THAT COULD NOT BE COMPUTED"
      [] OTHER -> "# PARAMETERS WITH WRONG VALUE"

\* the lines of report.md: a section title, a table header, a table line
title_line(b) == [tag |-> "title", text |-> section_title(b)]

write_report_header ==
    [tag |-> "header", text |-> "NAME | EXPECTED VALUE | ACTUAL VALUE | FOUND IN |"]

\* compute_params returns; generate_report opens report.md and starts the first table
ComputeReturn ==
    /\ pc = "compute"
    /\ compNo = Len(parameters)
    /\ pc' = "report"
    /\ bucketNo' = 0
    /\ entryNo' = 0
    /\ report_file' = <<title_line(0), write_report_header>>
    /\ UNCHANGED <<err, sheet, rowNo, parameters, parameters_cells, tree, fileNo, lineNo,
                   param_data, compNo, values_as_expected, nothing_found_container,
                   cannot_decide_value, not_equal_expected_actual_values>>

computed_dicts(b) ==
    CASE b = 0 -> values_as_expected
      [] b = 1 -> nothing_found_container
      [] b = 2 -> cannot_decide_value
      [] OTHER -> not_equal_expected_actual_values

status_of(b) == IF b = 0 THEN "Agreed" ELSE "Follow-up"

comment_of(b) ==
    CASE b = 0 -> "Found in config and value is matching."
      [] b = 1 -> "Not found in config"
      [] b = 2 -> "Multiple different values in config"
      [] OTHER -> "Values available in config but don't match"

write_line(line_dict) == [tag |-> "line", text |-> line_dict]

\* generate_report: one entry of the bucket being written; the lookup of the
\* row in excel_cells raises KeyError when the name has no row
ReportEntry ==
    /\ pc = "report"
    /\ entryNo < Len(computed_dicts(bucketNo))
    /\ LET param_name == computed_dicts(bucketNo)[entryNo + 1].k
           container_dict == computed_dicts(bucketNo)[entryNo + 1].v
       IN  /\ report_file' = Append(report_file, write_line(container_dict))
           /\ IF Has(parameters_cells, param_name)
              THEN /\ sheet' = [sheet EXCEPT
                                   ![Get(parameters_cells, param_name)].status =
                                       status_of(bucketNo),
                                   ![Get(parameters_cells, param_name)].comment =
                                       comment_of(bucketNo)]
                   /\ UNCHANGED <<pc, err>>
              ELSE /\ err' = "KeyError"
                   /\ pc' = "crashed"
                   /\ UNCHANGED sheet
    /\ entryNo' = entryNo + 1
    /\ UNCHANGED <<rowNo, parameters, parameters_cells, tree, fileNo, lineNo, param_data,
                   compNo, values_as_expected, nothing_found_container,
                   cannot_decide_value, not_equal_expected_actual_values, bucketNo>>

\* generate_report: the bucket is written; the next table is started
ReportNextTable ==
    /\ pc = "report"
    /\ entryNo = Len(computed_dicts(bucketNo))
    /\ bucketNo < 3
    /\ bucketNo' = bucketNo + 1
    /\ entryNo' = 0
    /\ report_file' = report_file \o <<title_line(bucketNo + 1), write_report_header>>
    /\ UNCHANGED <<pc, err, sheet, rowNo, parameters, parameters_cells, tree, fileNo,
                   lineNo, param_data, compNo, values_as_expected,
                   nothing_found_container, cannot_decide_value,
                   not_equal_expected_actual_values>>

\* generate_report: the last bucket is written; the workbook is saved
ReportSave ==
    /\ pc = "report"
    /\ entryNo = Len(computed_dicts(bucketNo))
    /\ bucketNo = 3
    /\ pc' = "done"
    /\ UNCHANGED <<err, sheet, rowNo, parameters, parameters_cells, tree, fileNo, lineNo,
                   param_data, compNo, values_as_expected, nothing_found_container,
                   cannot_decide_value, not_equal_expected_actual_values, bucketNo,
                   entryNo, report_file>>

----------------------------------------------------------------------------
(* Inputs                                                                  *)

Strings(A, n) == UNION {[1..k -> A] : k \in 0..n}

Row(object_type, text) ==
    [object_type |-> object_type, text |-> text, status |-> "", comment |-> ""]

File(path, lines) == [path |-> path, lines |-> lines]

\* an indented line with a definition reference to /A/<name>
DefLine(name) == <<" ", "<", MARK, OPENPATH, "A", "/">> \o name \o <<CLOSE, MARK, ">", "\n">>

\* an indented line with a value
ValLine(v) == <<" ", VOPEN>> \o v \o <<VCLOSE, "\n">>

\* an opening tag that is continued on the next line: the marker without a path
OpenTagLine == <<" ", "<", MARK, "\n">>

EOF == <<"EOF">>

\* The files of a stream of lines in which EOF ends a file (the last file
\* needs none); the path of a file is its number in the stream.
RECURSIVE SplitFrom(_, _, _)
SplitFrom(stream, done, lines) ==
    IF stream = << >>
    THEN IF lines = << >> THEN done ELSE Append(done, File(Len(done) + 1, lines))
    ELSE IF Head(stream) = EOF
         THEN SplitFrom(Tail(stream), Append(done, File(Len(done) + 1, lines)), << >>)
         ELSE SplitFrom(Tail(stream), done, Append(lines, Head(stream)))

Split(stream) == SplitFrom(stream, << >>, << >>)

Streams(lineSet, n) == Strings(lineSet \cup {EOF}, n)

NameP == <<"p">>
NameQ == <<"q">>

\* the sheet whose extraction gives the table, and the rows of its names
SheetOf(table) ==
    [i \in DOMAIN table |->
        Row(<<"Requirement">>, table[i].k \o <<" ", KEY, " ">> \o table[i].v)]

CellsOf(table) == [i \in DOMAIN table |-> [k |-> table[i].k, v |-> i]]

\* search_for_param as a whole: the loop over the files and their lines
RECURSIVE ScanFrom(_, _, _, _, _)
ScanFrom(params, tr, f, ln, pdata) ==
    IF f > Len(tr)
    THEN [param_data |-> pdata, err |-> "none"]
    ELSE IF ln = Len(tr[f].lines)
         THEN ScanFrom(params, tr, f + 1, 0, pdata)
         ELSE LET r == scan_line(params, tr[f], ln, pdata)
              IN  IF r.err # "none"
                  THEN [param_data |-> r.param_data, err |-> r.err]
                  ELSE ScanFrom(params, tr, f, r.lineNo, r.param_data)

search_for_param(params, tr) == ScanFrom(params, tr, 1, 0, EmptyDict)

----------------------------------------------------------------------------
(* The whole program: Spec                                                 *)

ObjectTypes == {<<"Requirement">>, <<"Information">>}

RowTexts ==
    { <<"p", " ", KEY, " ", "5">>,
      <<"p", " ", KEY, " ", "6">>,
      <<"q", " ", KEY, " ", "5">>,
      <<KEY, " ", "5">>,
      <<"p", " ", "5">> }

Rows == {Row(o, t) : o \in ObjectTypes, t \in RowTexts}

Sheets == Strings(Rows, MaxRows)

PipeStreams ==
    { << >>,
      <<DefLine(NameP), ValLine(<<"5">>)>>,
      <<OpenTagLine, DefLine(NameP), ValLine(<<"6">>)>>,
      <<DefLine(NameP), ValLine(<<"5", " ", "a">>), EOF, DefLine(NameQ), ValLine(<<"5">>)>>,
      <<DefLine(NameP), ValLine(<<"5">>), EOF, DefLine(NameP), ValLine(<<"5", " ", "a">>)>>,
      <<DefLine(NameP), OpenTagLine, DefLine(NameP), ValLine(<<"5">>)>>,
      <<DefLine(NameP), ValLine(<<"5">>), DefLine(NameP)>> }

Start(sh, tr) ==
    /\ pc = "extract"
    /\ err = "none"
    /\ sheet = sh
    /\ rowNo = 0
    /\ parameters = EmptyDict
    /\ parameters_cells = EmptyDict
    /\ tree = tr
    /\ fileNo = 0
    /\ lineNo = 0
    /\ param_data = EmptyDict
    /\ compNo = 0
    /\ values_as_expected = EmptyDict
    /\ nothing_found_container = EmptyDict
    /\ cannot_decide_value = EmptyDict
    /\ not_equal_expected_actual_values = EmptyDict
    /\ bucketNo = 0
    /\ entryNo = 0
    /\ report_file = << >>

Init == \E sh \in Sheets, s \in PipeStreams : Start(sh, Split(s))

Next ==
    \/ ExtractRow
    \/ ExtractReturn
    \/ ScanNextFile
    \/ ScanLine
    \/ ScanReturn
    \/ ComputeParam
    \/ ComputeReturn
    \/ ReportEntry
    \/ ReportNextTable
    \/ ReportSave

Spec == Init /\ [][Next]_vars

----------------------------------------------------------------------------
(* The requirement parser on one row: SpecParse                            *)

ParseChars == {"p", " ", "\n", "%", KEY}

InitParse ==
    \E t \in Strings(ParseChars, MaxText) : Start(<<Row(<<"Requirement">>, t)>>, << >>)

NextParse == ExtractRow \/ ExtractReturn

SpecParse == InitParse /\ [][NextParse]_vars

----------------------------------------------------------------------------
(* The scanner and the reconciliation, from an extracted table: SpecScan   *)

\* the program as search_for_param is called with the table on the tree
Extracted(table, tr) ==
    /\ pc = "scan"
    /\ err = "none"
    /\ sheet = SheetOf(table)
    /\ rowNo = Len(table)
    /\ parameters = table
    /\ parameters_cells = CellsOf(table)
    /\ tree = tr
    /\ fileNo = 0
    /\ lineNo = 0
    /\ param_data = EmptyDict
    /\ compNo = 0
    /\ values_as_expected = EmptyDict
    /\ nothing_found_container = EmptyDict
    /\ cannot_decide_value = EmptyDict
    /\ not_equal_expected_actual_values = EmptyDict
    /\ bucketNo = 0
    /\ entryNo = 0
    /\ report_file = << >>

ScanTables ==
    { <<[k |-> NameP, v |-> <<"5">>]>>,
      <<[k |-> NameP, v |-> <<"6">>], [k |-> NameQ, v |-> <<"5">>]>> }

ScanLines ==
    { DefLine(NameP), DefLine(NameQ), ValLine(<<"5">>), ValLine(<<"6">>),
      ValLine(<<"5", " ", "a">>) }

InitScan ==
    \E table \in ScanTables, s \in Streams(ScanLines, MaxStream) : Extracted(table, Split(s))

NextScan == ScanNextFile \/ ScanLine \/ ScanReturn \/ ComputeParam \/ ComputeReturn

SpecScan == InitScan /\ [][NextScan]_vars

----------------------------------------------------------------------------
(* The reconciliation of one parameter found with one value: SpecNorm      *)

ValueChars == {"5", "a", "A", " ", "\t"}

\* the values get_param can return: they end in a word character
ExpectedValues == {e \in Strings(ValueChars, MaxValueLen) :
                      e # << >> /\ e[Len(e)] \in WordChars}

\* the values the scanner can extract: any text of one line
ActualValues == Strings(ValueChars, MaxValueLen)

\* the program as compute_params is called: the table, and the tree scanned
Scanned(table, tr) ==
    /\ pc = "compute"
    /\ err = "none"
    /\ sheet = SheetOf(table)
    /\ rowNo = Len(table)
    /\ parameters = table
    /\ parameters_cells = CellsOf(table)
    /\ tree = tr
    /\ fileNo = Len(tr)
    /\ lineNo = Len(tr[Len(tr)].lines)
    /\ param_data = search_for_param(table, tr).param_data
    /\ compNo = 0
    /\ values_as_expected = EmptyDict
    /\ nothing_found_container = EmptyDict
    /\ cannot_decide_value = EmptyDict
    /\ not_equal_expected_actual_values = EmptyDict
    /\ bucketNo = 0
    /\ entryNo = 0
    /\ report_file = << >>

\* the parameter defined with the same value in one file, or in two
OneValueStreams(a) ==
    { <<DefLine(NameP), ValLine(a)>>,
      <<DefLine(NameP), ValLine(a), EOF, DefLine(NameP), ValLine(a)>> }

InitNorm ==
    \E e \in ExpectedValues, a \in ActualValues :
        \E s \in OneValueStreams(a) : Scanned(<<[k |-> NameP, v |-> e]>>, Split(s))

NextNorm == ComputeParam \/ ComputeReturn

SpecNorm == InitNorm /\ [][NextNorm]_vars

----------------------------------------------------------------------------
(* Claims                                                                  *)

\* the line is a definition line of a requested parameter
IsRequestedDef(line) ==
    /\ contains(line, MARK)
    /\ param_pattern_search(line).matched
    /\ Has(parameters, split_slash_last(param_pattern_search(line).g1))

ShortName(line) == split_slash_last(param_pattern_search(line).g1)

\* the line holds a value between the value tags
HoldsValue(line) == value_pattern_match(strip(line)).matched

ValueOf(line) == value_pattern_match(strip(line)).g1

\* the scanner is about to run its loop body on a line of the open file
AtLine == pc = "scan" /\ fileNo >= 1 /\ lineNo < Len(tree[fileNo].lines)

CurLines == tree[fileNo].lines

\* the line after the current one is missing or holds no value
NoValueFollows == IF lineNo + 2 > Len(CurLines) THEN TRUE ELSE ~HoldsValue(CurLines[lineNo + 2])

\* C2: a definition line of a requested parameter that is not followed by a
\* value line (the last line of a file included) adds no occurrence and does
\* not end the scan: the scanner goes on with the lines and files after it.
C2_MalformedIsSkipped ==
    [][ (AtLine /\ IsRequestedDef(CurLines[lineNo + 1]) /\ NoValueFollows)
            => (param_data' = param_data /\ err' = "none" /\ pc' = "scan") ]_vars

\* Python str.split() with no argument, element 0: the first run of characters
\* that are not whitespace (empty when there is none)
FirstWsToken(s) ==
    LET t == lstrip(s)
        ws == {i \in DOMAIN t : t[i] \in Whitespace}
    IN  IF ws = {} THEN t ELSE SubSeq(t, 1, Min(ws) - 1)

\* C3: a parameter found with one distinct raw value is AGREED exactly when
\* the upper-cased first whitespace-delimited tokens of the actual and of the
\* expected value are equal, and MISMATCHED otherwise.
C3_FirstTokenDecides ==
    (pc = "compute" /\ compNo = 1) =>
        LET e == parameters[1].v
            a == Get(param_data, NameP)[1][3]
        IN  IF FirstWsToken(upper(a)) = FirstWsToken(upper(e))
            THEN /\ Keys(values_as_expected) = {NameP}
                 /\ Keys(not_equal_expected_actual_values) = {}
            ELSE /\ Keys(not_equal_expected_actual_values) = {NameP}
                 /\ Keys(values_as_expected) = {}

\* C7: a text of the form path, phrase, value registers the trimmed path with
\* the trimmed text after the phrase, whatever separates the phrase from the
\* value; a text without the phrase registers nothing.
C7_TrimmedPathAndValue ==
    (pc = "extract" /\ rowNo = 1) =>
        LET t == replace(sheet[1].text, "\n", " ")
            ks == {i \in DOMAIN t : t[i] = KEY}
        IN  /\ ks = {} => parameters = EmptyDict
            /\ \A i \in ks :
                  (/\ ks = {i}
                   /\ strip(SubSeq(t, 1, i - 1)) # << >>
                   /\ strip(SubSeq(t, i + 1, Len(t))) # << >>
                   /\ t[Len(rstrip(t))] \in WordChars) =>
                      parameters = <<[k |-> strip(SubSeq(t, 1, i - 1)),
                                      v |-> strip(SubSeq(t, i + 1, Len(t)))]>>

\* compute_params has returned its four buckets
ComputeDone == pc \in {"report", "done"} \/ err = "KeyError"

Buckets == <<values_as_expected, nothing_found_container, cannot_decide_value,
             not_equal_expected_actual_values>>

\* C1: after compute_params every expected parameter name is a key of exactly
\* one of the four buckets: the buckets are pairwise disjoint and the union of
\* their keys is the key set of the expected-parameter table.
C1_BucketsPartition ==
    ComputeDone =>
        /\ UNION {Keys(Buckets[b]) : b \in 1..4} = Keys(parameters)
        /\ \A b, c \in 1..4 : b # c => Keys(Buckets[b]) \cap Keys(Buckets[c]) = {}
        /\ \A b \in 1..4 : Cardinality(Keys(Buckets[b])) = Len(Buckets[b])

\* two parameters were reconciled into the same bucket, a third bucket apart
C1_Witness ==
    /\ pc = "done"
    /\ Len(parameters) = 2
    /\ Len(values_as_expected) = 2

\* the rows of the sheet that are requirements and parse to the name
RowsNaming(name) ==
    {i \in DOMAIN sheet :
        /\ contains(sheet[i].object_type, "Requirement")
        /\ get_param(replace(sheet[i].text, "\n", " ")).matched
        /\ strip(get_param(replace(sheet[i].text, "\n", " ")).g1) = name}

NamesInSheet ==
    {strip(get_param(replace(sheet[i].text, "\n", " ")).g1) :
        i \in {j \in DOMAIN sheet :
                  /\ contains(sheet[j].object_type, "Requirement")
                  /\ get_param(replace(sheet[j].text, "\n", " ")).matched}}

\* C6: when several requirement rows parse to the same name, the expected
\* table keeps the value of the first such row and the row-handle table keeps
\* the handle of that same row.
C6_FirstRowWins ==
    (pc # "extract") =>
        \A name \in NamesInSheet :
            LET first == Min(RowsNaming(name))
            IN  /\ Has(parameters, name)
                /\ Get(parameters, name) = get_param(replace(sheet[first].text, "\n", " ")).g2
                /\ Has(parameters_cells, name)
                /\ Get(parameters_cells, name) = first

\* the bucket (0 to 3) that holds the name
BucketOf(name) == CHOOSE b \in 0..3 : Has(computed_dicts(b), name)

\* the entries of report.md written for the name
ReportLinesOf(name) ==
    {i \in DOMAIN report_file :
        /\ report_file[i].tag = "line"
        /\ report_file[i].text.name = name}

\* C8: generate_report sets the status of the row of every registered
\* parameter to Agreed exactly for the AGREED bucket and to Follow-up for the
\* three others, with the comment of its bucket; every row is written once
\* and no lookup of a row handle fails.
C8_RowsAnnotated ==
    /\ err # "KeyError"
    /\ pc = "done" =>
          \A name \in Keys(parameters) :
              /\ Has(parameters_cells, name)
              /\ Cardinality(ReportLinesOf(name)) = 1
              /\ LET row == sheet[Get(parameters_cells, name)]
                 IN  /\ row.status = "Agreed" <=> Has(values_as_expected, name)
                     /\ row.status = "Follow-up" <=> ~Has(values_as_expected, name)
                     /\ row.comment = comment_of(BucketOf(name))

\* the raw values the parameter was found with
RawValues(name) == {Get(param_data, name)[i][3] : i \in DOMAIN Get(param_data, name)}

\* C4: a parameter found with more than one distinct raw value is AMBIGUOUS,
\* whatever the order of its occurrences and its expected value; the values
\* are told apart as extracted, and the actual-value display has one entry
\* for every occurrence.
C4_DistinctRawValuesAmbiguous ==
    ComputeDone =>
        \A name \in Keys(parameters) :
            (Has(param_data, name) /\ Cardinality(RawValues(name)) > 1) =>
                /\ Has(cannot_decide_value, name)
                /\ ~Has(values_as_expected, name)
                /\ ~Has(not_equal_expected_actual_values, name)
                /\ ~Has(nothing_found_container, name)
                /\ LET shown == Get(cannot_decide_value, name).actual_value
                       occs == Get(param_data, name)
                   IN  /\ Cardinality({i \in DOMAIN shown : shown[i].tag = "Value in"})
                              = Len(occs)
                       /\ \A i \in DOMAIN occs :
                              shown[i] = [tag |-> "Value in", file |-> occs[i][1],
                                          text |-> occs[i][3]]

\* the parameter was found as 5 and as 5 a, which normalize to the same token
C4_Witness ==
    /\ pc = "report"
    /\ Has(param_data, NameP)
    /\ RawValues(NameP) = {<<"5">>, <<"5", " ", "a">>}
    /\ Has(cannot_decide_value, NameP)

Perms(n) == {f \in [1..n -> 1..n] : \A i, j \in 1..n : f[i] = f[j] => i = j}

Permute(tr, f) == [i \in DOMAIN tr |-> tr[f[i]]]

\* the bucket compute_params gives the name for an occurrence table
ClassOf(pdata, name) ==
    IF ~Has(pdata, name)
    THEN 1
    ELSE LET r == compute_param(name, Get(parameters, name), Get(pdata, name))
         IN  CASE r.values_as_expected # EmptyDict -> 0
               [] r.cannot_decide_value # EmptyDict -> 2
               [] OTHER -> 3

\* C5: visiting the files in another order changes no parameter's bucket
\* (nor whether the scan ends with an exception).
C5_OrderIndependent ==
    /\ ComputeDone =>
          \A f \in Perms(Len(tree)) :
              LET r == search_for_param(parameters, Permute(tree, f))
              IN  /\ r.err = "none"
                  /\ \A name \in Keys(parameters) :
                         Has(computed_dicts(ClassOf(r.param_data, name)), name)
    /\ pc = "crashed" =>
          \A f \in Perms(Len(tree)) :
              search_for_param(parameters, Permute(tree, f)).err # "none"

\* a parameter was found with different values in two files
C5_Witness ==
    /\ pc = "report"
    /\ \E name \in Keys(param_data) :
          \E i, j \in DOMAIN Get(param_data, name) :
              /\ Get(param_data, name)[i][1] # Get(param_data, name)[j][1]
              /\ Get(param_data, name)[i][3] # Get(param_data, name)[j][3]

\* The occurrences of the name that the lines of the file up to line upto
\* give: every definition line of the name that a value line follows.  With
\* every = FALSE a line that was read as the value candidate of a requested
\* definition line is passed over.
RECURSIVE OccsFrom(_, _, _, _, _)
OccsFrom(file, name, i, upto, every) ==
    IF i > upto
    THEN << >>
    ELSE IF ~IsRequestedDef(file.lines[i])
         THEN OccsFrom(file, name, i + 1, upto, every)
         ELSE (IF /\ ShortName(file.lines[i]) = name
                  /\ i + 1 <= upto
                  /\ HoldsValue(file.lines[i + 1])
               THEN << <<file.path, strip(file.lines[i]), ValueOf(file.lines[i + 1])>> >>
               ELSE << >>)
              \o OccsFrom(file, name, IF every THEN i + 1 ELSE i + 2, upto, every)

RECURSIVE OccsOfFiles(_, _, _)
OccsOfFiles(name, f, every) ==
    IF f > fileNo
    THEN << >>
    ELSE OccsFrom(tree[f], name, 1,
                  IF f < fileNo THEN Len(tree[f].lines) ELSE lineNo, every)
         \o OccsOfFiles(name, f + 1, every)

OccsOf(name) == IF Has(param_data, name) THEN Get(param_data, name) ELSE << >>

IsPrefix(s, t) == Len(s) <= Len(t) /\ SubSeq(t, 1, Len(s)) = s

\* C9 as stated: every definition line of a requested parameter that a value
\* line follows has its occurrence in the list of its short name.
C9_EveryDefinitionLine ==
    \A name \in Keys(parameters) :
        LET claimed == OccsOfFiles(name, 1, TRUE)
        IN  /\ Len(OccsOf(name)) = Len(claimed)
            /\ \A i \in DOMAIN claimed : \E j \in DOMAIN OccsOf(name) : OccsOf(name)[j] = claimed[i]

\* C9 as amended: every definition line of a requested parameter that the
\* loop examines (one not read as the value candidate of the requested
\* definition line before it) and that a value line follows has its
\* occurrence (path, stripped line, value) appended to the list of its short
\* name; the keys are requested names, no list is empty, and a list is only
\* ever appended to.
C9_ExaminedDefinitionLine ==
    /\ [](/\ \A name \in Keys(parameters) : OccsOf(name) = OccsOfFiles(name, 1, FALSE)
          /\ Keys(param_data) \subseteq Keys(parameters)
          /\ \A name \in Keys(param_data) : Get(param_data, name) # << >>)
    /\ [][\A name \in Keys(param_data) :
              /\ Has(param_data', name)
              /\ IsPrefix(Get(param_data, name), Get(param_data', name))]_vars

\* an occurrence was appended to the list of a name found before
C9_Witness ==
    /\ pc = "scan"
    /\ \E name \in Keys(param_data) : Len(Get(param_data, name)) >= 2

\* C10: the line read as the value candidate of a requested definition line
\* is consumed, whether or not it held a value, and is not examined as a
\* definition line; of two consecutive requested definition lines the first
\* is discarded and the second passed over, so the value line after it gives
\* no occurrence; any other line consumes no extra line.
C10_ValueCandidateConsumed ==
    [][ AtLine =>
          IF IsRequestedDef(CurLines[lineNo + 1])
          THEN /\ pc' = "scan" => lineNo' = lineNo + 2
               /\ (lineNo + 2 <= Len(CurLines) /\ IsRequestedDef(CurLines[lineNo + 2]))
                      => (param_data' = param_data /\ lineNo' = lineNo + 2)
          ELSE /\ lineNo' = lineNo + 1
               /\ param_data' = param_data ]_vars

\* a file of two requested definition lines and a value line has been read
\* and has given no occurrence
C10_Witness ==
    /\ pc = "scan"
    /\ fileNo >= 1
    /\ Len(CurLines) = 3
    /\ lineNo = 3
    /\ IsRequestedDef(CurLines[1])
    /\ IsRequestedDef(CurLines[2])
    /\ HoldsValue(CurLines[3])
    /\ \A name \in Keys(param_data) :
          \A i \in DOMAIN Get(param_data, name) :
              Get(param_data, name)[i][1] # tree[fileNo].path

============================================================================
